---- MODULE Spec2Model ----
\* A model of VoxelLevel (src/src/level.rs) and raycast_world (src/src/raycast.rs).
\*
\* Vectors are triples <<x, y, z>>.  An Option is a record [some, val].  A chunk
\* (ChunkData) is the finite map of its non-default cells: relative position ->
\* voxel; a cell outside the map holds the default voxel.
\*
\* get_voxel, get_chunk and get_chunk_neighbors_pos take &self and change
\* nothing: they are operators on the state, asked for every input in every
\* state.  raycast_world runs one loop iteration per step.
EXTENDS Integers, Sequences, FiniteSets, TLC

\* ------------------------------------------------------------------ constants
\* CHUNK_SIZE of vinox_voxel, imported by level.rs.
CHUNK_SIZE == 32

\* V::default(), the voxel of a fresh chunk; is_empty holds of it alone.
DefaultVoxel == 0

\* --------------------------------------------------------------------- bounds
\* level_size is drawn from (1..MaxLevel)^3, chunk coordinates of the inputs
\* from (0..MaxLevel)^3, so that every level has out-of-extent inputs.
MaxLevel == 2

\* Voxel values are 0..MaxVoxel.
MaxVoxel == 1

\* At most MaxSets calls of set_voxel in a behaviour.
MaxSets == 2

\* Direction components are 0, 1, -1 and 2^MaxDirExp.
MaxDirExp == 2

\* The farthest voxel (MaxRayX, 0, 0) a ray along x is aimed at.
MaxRayX == 33

VARIABLES
    level_size,     \* VoxelLevel.level_size
    loaded_chunks,  \* VoxelLevel.loaded_chunks : Option<Vec<ChunkData>>
    stored_chunks,  \* VoxelLevel.stored_chunks : Option<Vec<RawChunk>>
    file,           \* the file save writes and load reads : Option<serialized level>
    ret,            \* the last call of new, set_voxel, save, load or raycast, with its arguments
    nsets,          \* number of set_voxel calls so far
    ray             \* the running raycast_world call: its arguments, locals and result

vars == <<level_size, loaded_chunks, stored_chunks, file, ret, nsets, ray>>

\* -------------------------------------------------------------------- helpers
Some(v) == [some |-> TRUE, val |-> v]

None == [some |-> FALSE, val |-> <<>>]

\* Vec::get(idx), idx counted from 0.
VecGet(vec, idx) == IF idx >= 0 /\ idx < Len(vec) THEN Some(vec[idx + 1]) ELSE None

\* Vec::insert(idx, e): shifts everything from idx on to the right.
VecInsert(vec, idx, e) == SubSeq(vec, 1, idx) \o <<e>> \o SubSeq(vec, idx + 1, Len(vec))

\* vec![e; n]
VecRepeat(e, n) == [i \in 1..n |-> e]

\* Floor division and Euclidean remainder by a positive divisor.
FloorDiv(a, b) == a \div b

RemEuclid(a, b) == a % b

\* ---------------------------------------------------------- coordinate mapper
\* ndshape RuntimeShape::<u32, 3>::new(level_size).linearize(pos): strides
\* [1, x, x*y], no bounds check.  (The u32 arithmetic wraps at 2^32; every index
\* of this model stays below 2^31.)
linearize(ls, pos) == pos[1] + ls[1] * pos[2] + (ls[1] * ls[2]) * pos[3]

\* RuntimeShape::delinearize
delinearize(ls, idx) ==
    LET z == idx \div (ls[1] * ls[2])
        i == idx - z * (ls[1] * ls[2])
    IN  <<i % ls[1], i \div ls[1], z>>

to_relative(pos) ==
    <<RemEuclid(pos[1], CHUNK_SIZE), RemEuclid(pos[2], CHUNK_SIZE), RemEuclid(pos[3], CHUNK_SIZE)>>

\* A u32 of 2^31 or more is written as the negative integer it is as an i32
\* (n stands for 2^32 + n), so that IVec3::as_uvec3 keeps the integer.
\*
\* (n as f32 / CHUNK_SIZE as f32).floor() as u32.  Below 2^24 the f32 is exact.
\* From 2^31 on an f32 is a multiple of 256 (round to nearest, ties to even),
\* and the division by CHUNK_SIZE, a power of two, is exact.
ToChunkAxis(n) ==
    IF n >= 0 THEN FloorDiv(n, CHUNK_SIZE)
    ELSE LET q == FloorDiv(n, 256)
             r == RemEuclid(n, 256)
             m == IF r > 128 \/ (r = 128 /\ q % 2 = 1) THEN q + 1 ELSE q
         IN  2^27 + m * (256 \div CHUNK_SIZE)

to_chunk(pos) == <<ToChunkAxis(pos[1]), ToChunkAxis(pos[2]), ToChunkAxis(pos[3])>>

\* ------------------------------------------------------------------- chunks
\* ChunkData::default()
ChunkDefault == [r \in {} |-> DefaultVoxel]

\* ChunkData::get(relative)
ChunkGet(chunk, rel) == IF rel \in DOMAIN chunk THEN chunk[rel] ELSE DefaultVoxel

\* ChunkData::set(relative, voxel)
ChunkSet(chunk, rel, voxel) ==
    LET dom == IF voxel = DefaultVoxel THEN DOMAIN chunk \ {rel} ELSE DOMAIN chunk \cup {rel}
    IN  [r \in dom |-> IF r = rel THEN voxel ELSE chunk[r]]

\* ChunkData::to_raw: a palette (default voxel first, then the values in use in
\* increasing order) and, per cell, the index of its voxel in the palette.
RECURSIVE SortedSeq(_)
SortedSeq(S) ==
    IF S = {} THEN <<>>
    ELSE LET m == CHOOSE x \in S : \A y \in S : x <= y
         IN  <<m>> \o SortedSeq(S \ {m})

PaletteIndex(palette, v) == CHOOSE i \in 1..Len(palette) : palette[i] = v

ToRaw(chunk) ==
    LET palette == <<DefaultVoxel>> \o SortedSeq({chunk[r] : r \in DOMAIN chunk} \ {DefaultVoxel})
    IN  [palette |-> palette,
         voxels  |-> [r \in DOMAIN chunk |-> PaletteIndex(palette, chunk[r])]]

\* ChunkData::from_raw
FromRaw(raw) == [r \in DOMAIN raw.voxels |-> raw.palette[raw.voxels[r]]]

\* loaded_chunks.iter().map(|x| x.to_raw()).collect()
ToRawAll(vec) == [i \in 1..Len(vec) |-> ToRaw(vec[i])]

\* stored_chunks.iter().map(|x| ChunkData::from_raw(x.clone())).collect()
FromRawAll(vec) == [i \in 1..Len(vec) |-> FromRaw(vec[i])]

\* ---------------------------------------------------------------- VoxelLevel
\* The positions new() visits: for x { for y { for z { ... } } }.
NewPositions(ls) ==
    [i \in 1..(ls[1] * ls[2] * ls[3]) |->
        <<(i - 1) \div (ls[2] * ls[3]), ((i - 1) \div ls[3]) % ls[2], (i - 1) % ls[3]>>]

RECURSIVE NewInsert(_, _, _, _)
NewInsert(ls, vec, poss, k) ==
    IF k > Len(poss) THEN vec
    ELSE NewInsert(ls, VecInsert(vec, linearize(ls, poss[k]), ChunkDefault), poss, k + 1)

\* new(): vec![default; x*y*z], then one insert per chunk coordinate.
NewChunks(ls) ==
    NewInsert(ls, VecRepeat(ChunkDefault, ls[1] * ls[2] * ls[3]), NewPositions(ls), 1)

\* get_voxel(&self, voxel_pos)
get_voxel(lc, ls, voxel_pos) ==
    LET chunk_pos    == to_chunk(voxel_pos)
        relative_pos == to_relative(voxel_pos)
        slot == IF lc.some THEN VecGet(lc.val, linearize(ls, chunk_pos)) ELSE None
    IN  IF slot.some THEN Some(ChunkGet(slot.val, relative_pos)) ELSE None

\* set_voxel with the axes of the relative position mixed up
set_voxel_rotated(lc, ls, voxel_pos, voxel) ==
    LET chunk_pos    == to_chunk(voxel_pos)
        rel          == to_relative(voxel_pos)
        relative_pos == <<rel[2], rel[3], rel[1]>>
        idx  == linearize(ls, chunk_pos)
        slot == IF lc.some THEN VecGet(lc.val, idx) ELSE None
    IN  IF slot.some
        THEN Some([lc.val EXCEPT ![idx + 1] = ChunkSet(slot.val, relative_pos, voxel)])
        ELSE lc

\* set_voxel(&mut self, voxel_pos, voxel): the new loaded_chunks
set_voxel(lc, ls, voxel_pos, voxel) ==
    LET chunk_pos    == to_chunk(voxel_pos)
        relative_pos == to_relative(voxel_pos)
        idx  == linearize(ls, chunk_pos)
        slot == IF lc.some THEN VecGet(lc.val, idx) ELSE None
    IN  IF slot.some
        THEN Some([lc.val EXCEPT ![idx + 1] = ChunkSet(slot.val, relative_pos, voxel)])
        ELSE lc

\* get_chunk(&self, chunk_pos)
get_chunk(lc, ls, chunk_pos) ==
    IF lc.some THEN VecGet(lc.val, linearize(ls, chunk_pos)) ELSE None

\* ChunkPos::neighbors(): the 26 offsets of {-1,0,1}^3 without (0,0,0), z-major,
\* then y, then x.
NeighborOffsets ==
    LET all == [i \in 1..27 |-> <<((i - 1) % 3) - 1, (((i - 1) \div 3) % 3) - 1, ((i - 1) \div 9) - 1>>]
    IN  [i \in 1..26 |-> IF i < 14 THEN all[i] ELSE all[i + 1]]

\* get_chunk_neighbors_pos(&self, chunk_pos): sign test, then the Vec's own
\* bounds check on the linearized index.
get_chunk_neighbors_pos(lc, ls, chunk_pos) ==
    IF ~lc.some THEN None
    ELSE Some([i \in 1..26 |->
            LET neighbor == <<chunk_pos[1] + NeighborOffsets[i][1],
                              chunk_pos[2] + NeighborOffsets[i][2],
                              chunk_pos[3] + NeighborOffsets[i][3]>>
            IN  IF neighbor[1] >= 0 /\ neighbor[2] >= 0 /\ neighbor[3] >= 0
                THEN IF VecGet(lc.val, linearize(ls, neighbor)).some
                     THEN Some(neighbor)
                     ELSE None
                ELSE None])

\* ------------------------------------------------------------------- inputs
LevelSizes == {<<x, y, z>> : x \in 1..MaxLevel, y \in 1..MaxLevel, z \in 1..MaxLevel}

ChunkCoords == {<<x, y, z>> : x \in 0..MaxLevel, y \in 0..MaxLevel, z \in 0..MaxLevel}

\* The sampled cell of a chunk: a different non-zero remainder on every axis.
RelSample == <<CHUNK_SIZE - 1, 1, 2>>

\* The world voxel coordinates get_voxel is asked for: the sampled cell of every
\* chunk coordinate, and the world origin.
Positions ==
    {<<c[1] * CHUNK_SIZE + RelSample[1], c[2] * CHUNK_SIZE + RelSample[2], c[3] * CHUNK_SIZE + RelSample[3]>> :
        c \in ChunkCoords} \cup {<<0, 0, 0>>}

Voxels == 0..MaxVoxel

\* The chunk coordinates at the edges of a level of size ls: its two corners,
\* and the first coordinate beyond the level on each axis and on all of them.
EdgeChunkCoords(ls) ==
    {<<0, 0, 0>>, <<ls[1] - 1, ls[2] - 1, ls[3] - 1>>,
     <<ls[1], 0, 0>>, <<0, ls[2], 0>>, <<0, 0, ls[3]>>, <<ls[1], ls[2], ls[3]>>}

\* The world voxel coordinates set_voxel is called with: their sampled cells, and
\* the world origin.
EdgePositions(ls) ==
    {<<c[1] * CHUNK_SIZE + RelSample[1], c[2] * CHUNK_SIZE + RelSample[2], c[3] * CHUNK_SIZE + RelSample[3]>> :
        c \in EdgeChunkCoords(ls)} \cup {<<0, 0, 0>>}

\* chunk coordinate c is inside the level
ChunkInExtent(ls, c) == \A a \in 1..3 : c[a] >= 0 /\ c[a] < ls[a]

\* world voxel coordinate w is inside the level
InExtent(ls, w) == \A a \in 1..3 : w[a] >= 0 /\ FloorDiv(w[a], CHUNK_SIZE) < ls[a]

Call(op, pos, voxel, out) == [op |-> op, pos |-> pos, voxel |-> voxel, out |-> out]


\* ------------------------------------------------------------------ raycast
\* Fixed point for the f32 values of raycast_world.  A position or a radius is
\* a number of 1/OScale; a ray parameter (tmax, tdelta, lastmax) a number of
\* 1/TScale.  Direction components are 0, +-1 or a power of two, so every quotient below is
\* exact, in the model as in f32.
OScale == 2^3

DScale == 2^MaxDirExp

TScale == OScale * DScale

\* f32::INFINITY, the quotient of a positive number by 0.0.
Inf == -1

\* a < b on f32, no NaN
FLess(a, b) == a # Inf /\ (b = Inf \/ a < b)

\* a + b on f32, a and b non-negative
FAdd(a, b) == IF a = Inf \/ b = Inf THEN Inf ELSE a + b

Abs(n) == IF n < 0 THEN -n ELSE n

\* direction.x^2 + direction.y^2 + direction.z^2
LengthSquared(d) == d[1] * d[1] + d[2] * d[2] + d[3] * d[3]

RECURSIVE intbound(_, _)
intbound(s, ds) ==
    IF ds < 0 THEN intbound(-s, -ds)
    ELSE IF ds = 0 THEN Inf
    ELSE ((OScale - RemEuclid(s, OScale)) * DScale) \div ds

\* direction.signum(): f32::signum of +0.0 is 1.0
Signum(d) == [a \in 1..3 |-> IF d[a] < 0 THEN -1 ELSE 1]

\* step / direction
TDelta(d) == [a \in 1..3 |-> IF d[a] = 0 THEN Inf ELSE TScale \div Abs(d[a])]

\* VoxelPos::from(Vector3<f32>): the floor of every component
VoxelPosFrom(origin) == [a \in 1..3 |-> FloorDiv(origin[a], OScale)]

\* t > radius / direction.length(), radius >= 0: t * |direction| > radius
GreaterThanRadius(t, radius, d) ==
    t = Inf \/ t * t * LengthSquared(d) > (radius * DScale) * (radius * DScale)

\* VoxelPos::to_offsets(): (relative_pos, chunk_pos)
to_offsets(voxel_pos) ==
    [relative_pos |-> [a \in 1..3 |-> RemEuclid(voxel_pos[a], CHUNK_SIZE)],
     chunk_pos    |-> [a \in 1..3 |-> FloorDiv(voxel_pos[a], CHUNK_SIZE)]]

\* Voxel::is_empty
is_empty(voxel) == voxel = DefaultVoxel

\* The closure VoxelLevel::raycast hands to raycast_world.
block_callback(lc, ls, vox_pos) ==
    LET voxel == get_voxel(lc, ls, vox_pos)
    IN  IF voxel.some THEN ~is_empty(voxel.val) ELSE FALSE

RayIdle ==
    [pc |-> "idle", origin |-> <<0, 0, 0>>, direction |-> <<0, 0, 0>>, radius |-> 0,
     tmax |-> <<0, 0, 0>>, current_block |-> <<0, 0, 0>>, step |-> <<0, 0, 0>>,
     tdelta |-> <<0, 0, 0>>, face |-> <<0, 0, 0>>, lastmax |-> 0, counter |-> 0,
     out |-> None]

\* raycast_world up to the loop; a zero direction returns None at once.
RayEnter(origin, direction, radius) ==
    [pc |-> IF direction = <<0, 0, 0>> THEN "done" ELSE "loop",
     origin |-> origin, direction |-> direction, radius |-> radius,
     tmax |-> [a \in 1..3 |-> intbound(origin[a], direction[a])],
     current_block |-> VoxelPosFrom(origin),
     step |-> Signum(direction),
     tdelta |-> TDelta(direction),
     face |-> <<0, 0, 0>>, lastmax |-> 0, counter |-> 0,
     out |-> None]

\* counter > (radius * 4.0) as u32, radius being radius / direction.length().
\* The cast truncates, and an integer exceeds the truncation of a number exactly
\* when it exceeds the number: counter * |direction| > 4 * radius.
CapExceeded(r) ==
    (r.counter * OScale) * (r.counter * OScale) * LengthSquared(r.direction)
        > 16 * r.radius * r.radius

\* The comparisons with <= for <: the first of the tied axes wins.
ChooseAxisFirstWins(tmax) ==
    IF ~FLess(tmax[2], tmax[1])
    THEN IF ~FLess(tmax[3], tmax[1]) THEN 1 ELSE 3
    ELSE IF ~FLess(tmax[3], tmax[2]) THEN 2 ELSE 3

\* The nested comparisons of tmax: the axis to advance along.
ChooseAxis(tmax) ==
    IF FLess(tmax[1], tmax[2])
    THEN IF FLess(tmax[1], tmax[3]) THEN 1 ELSE 3
    ELSE IF FLess(tmax[2], tmax[3]) THEN 2 ELSE 3

\* break: the loop is left and None returned
RayBreak(r) == [r EXCEPT !.pc = "done", !.out = None]

\* return Some((chunk_pos, relative_pos, face, toi)); toi = lastmax * |direction|
\* is kept as lastmax and |direction|^2.
RayReturnHit(r) ==
    LET off == to_offsets(r.current_block)
    IN  [r EXCEPT !.pc = "done",
                  !.out = Some([chunk_pos |-> off.chunk_pos, relative_pos |-> off.relative_pos,
                                face |-> r.face, toi |-> r.lastmax,
                                length_squared |-> LengthSquared(r.direction)])]

\* The advancing branch with face = step, the inward normal.
RayStepAxisInward(r, a) ==
    [r EXCEPT !.lastmax = r.tmax[a],
              !.current_block[a] = r.current_block[a] + r.step[a],
              !.tmax[a] = FAdd(r.tmax[a], r.tdelta[a]),
              !.face = [b \in 1..3 |-> IF b = a THEN r.step[a] ELSE 0],
              !.counter = r.counter + 1]

\* One of the four advancing branches, along axis a.
RayStepAxis(r, a) ==
    [r EXCEPT !.lastmax = r.tmax[a],
              !.current_block[a] = r.current_block[a] + r.step[a],
              !.tmax[a] = FAdd(r.tmax[a], r.tdelta[a]),
              !.face = [b \in 1..3 |-> IF b = a THEN -r.step[a] ELSE 0],
              !.counter = r.counter + 1]

\* One iteration of the loop.
RayIter(r, lc, ls) ==
    IF CapExceeded(r) THEN RayBreak(r)
    ELSE IF block_callback(lc, ls, r.current_block) THEN RayReturnHit(r)
    ELSE LET a == ChooseAxis(r.tmax)
         IN  IF GreaterThanRadius(r.tmax[a], r.radius, r.direction)
             THEN RayBreak(r)
             ELSE RayStepAxis(r, a)

\* raycast_world from the loop on, run to its return.
RECURSIVE RaycastRun(_, _, _)
RaycastRun(r, lc, ls) == IF r.pc = "loop" THEN RaycastRun(RayIter(r, lc, ls), lc, ls) ELSE r

\* ------------------------------------------------------------------- inputs
DirComps == {0, 1, -1, 2^MaxDirExp}

Directions == {<<x, y, z>> : x \in DirComps, y \in DirComps, z \in DirComps}

AxisDirections == {d \in Directions : LengthSquared(d) = 1}

\* (0.5, 0.5, 0.5) and (0.875, 0.5, 0.5)
Origins == {<<OScale \div 2, OScale \div 2, OScale \div 2>>, <<OScale - 1, OScale \div 2, OScale \div 2>>}

\* 0.125, 0.5, 1.5 and 5
Radii == {1, OScale \div 2, OScale + OScale \div 2, 5 * OScale}

\* long enough to reach voxel (MaxRayX, 0, 0) from the origin voxel
LongRadius == MaxRayX * OScale

RayInputs ==
    (Origins \X Directions \X Radii) \cup (Origins \X AxisDirections \X {LongRadius})

RayLevelSizes == {<<MaxLevel, 1, 1>>}

RayPositions == {<<1, 0, 0>>, <<2, 0, 0>>, <<MaxRayX, 0, 0>>, <<1, 1, 0>>}

\* ------------------------------------------------------------------ actions
\* The state after VoxelLevel::new(ls).
New(ls) ==
    /\ level_size = ls
    /\ loaded_chunks = Some(NewChunks(ls))
    /\ stored_chunks = None
    /\ file = None
    /\ ret = Call("new", ls, DefaultVoxel, None)
    /\ nsets = 0
    /\ ray = RayIdle

Init == \E ls \in LevelSizes : New(ls)

InitRay == \E ls \in RayLevelSizes : New(ls)

\* set_voxel; no raycast is running.
SetVoxel(voxel_pos, voxel) ==
    /\ ray.pc = "idle"
    /\ nsets < MaxSets
    /\ loaded_chunks' = set_voxel(loaded_chunks, level_size, voxel_pos, voxel)
    /\ ret' = Call("set_voxel", voxel_pos, voxel, None)
    /\ nsets' = nsets + 1
    /\ UNCHANGED <<level_size, stored_chunks, file, ray>>

\* What serde writes of the level: loaded_chunks is #[serde(skip)].
Serialize(ls, sc) == [level_size |-> ls, stored_chunks |-> sc]

\* save(&mut self, path, name)
Save ==
    LET sc == IF loaded_chunks.some THEN Some(ToRawAll(loaded_chunks.val)) ELSE stored_chunks
    IN  /\ ray.pc = "idle"
        /\ stored_chunks' = sc
        /\ file' = Some(Serialize(level_size, sc))
        /\ ret' = Call("save", <<>>, DefaultVoxel, None)
        /\ UNCHANGED <<level_size, loaded_chunks, nsets, ray>>

\* load(path, name): the level read back replaces the live one.
Load ==
    /\ ray.pc = "idle"
    /\ file.some
    /\ level_size' = file.val.level_size
    /\ stored_chunks' = file.val.stored_chunks
    /\ loaded_chunks' =
            Some(FromRawAll(IF file.val.stored_chunks.some THEN file.val.stored_chunks.val ELSE <<>>))
    /\ ret' = Call("load", <<>>, DefaultVoxel, None)
    /\ UNCHANGED <<file, nsets, ray>>

\* VoxelLevel::raycast calls raycast_world.
RaycastBegin(origin, direction, radius) ==
    /\ ray.pc = "idle"
    /\ ray' = RayEnter(origin, direction, radius)
    /\ ret' = Call("raycast", <<>>, DefaultVoxel, None)
    /\ UNCHANGED <<level_size, loaded_chunks, stored_chunks, file, nsets>>

\* The iteration cap ends the loop.
RayCapBreak ==
    /\ ray.pc = "loop"
    /\ CapExceeded(ray)
    /\ ray' = RayBreak(ray)
    /\ UNCHANGED <<level_size, loaded_chunks, stored_chunks, file, ret, nsets>>

\* The current voxel is occupied.
RayHit ==
    /\ ray.pc = "loop"
    /\ ~CapExceeded(ray)
    /\ block_callback(loaded_chunks, level_size, ray.current_block)
    /\ ray' = RayReturnHit(ray)
    /\ UNCHANGED <<level_size, loaded_chunks, stored_chunks, file, ret, nsets>>

\* A miss, and the chosen axis's tmax exceeds the radius.
RayRadiusBreak ==
    /\ ray.pc = "loop"
    /\ ~CapExceeded(ray)
    /\ ~block_callback(loaded_chunks, level_size, ray.current_block)
    /\ GreaterThanRadius(ray.tmax[ChooseAxis(ray.tmax)], ray.radius, ray.direction)
    /\ ray' = RayBreak(ray)
    /\ UNCHANGED <<level_size, loaded_chunks, stored_chunks, file, ret, nsets>>

\* A miss, and the traversal advances along the chosen axis.
RayAdvance ==
    /\ ray.pc = "loop"
    /\ ~CapExceeded(ray)
    /\ ~block_callback(loaded_chunks, level_size, ray.current_block)
    /\ ~GreaterThanRadius(ray.tmax[ChooseAxis(ray.tmax)], ray.radius, ray.direction)
    /\ ray' = RayStepAxis(ray, ChooseAxis(ray.tmax))
    /\ UNCHANGED <<level_size, loaded_chunks, stored_chunks, file, ret, nsets>>

\* The caller takes the result of the finished call.
RayReturn ==
    /\ ray.pc = "done"
    /\ ray' = RayIdle
    /\ UNCHANGED <<level_size, loaded_chunks, stored_chunks, file, ret, nsets>>

Next ==
    \/ \E p \in EdgePositions(level_size), v \in Voxels : SetVoxel(p, v)
    \/ Save
    \/ Load

NextRay ==
    \/ \E p \in RayPositions, v \in Voxels : SetVoxel(p, v)
    \/ \E i \in RayInputs : RaycastBegin(i[1], i[2], i[3])
    \/ RayCapBreak
    \/ RayHit
    \/ RayRadiusBreak
    \/ RayAdvance
    \/ RayReturn

\* The level's store and its life cycle.
Spec == Init /\ [][Next]_vars

\* The level's store and raycasts in it.
SpecRay == InitRay /\ [][NextRay]_vars

\* ------------------------------------------------------------------- claims
\* The level has level_size.x * level_size.y * level_size.z chunk coordinates.
ChunkCount == level_size[1] * level_size[2] * level_size[3]

\* C1: get_voxel of an out-of-extent world coordinate returns absent, in every
\* state reached from new() by set_voxel calls.
C1_OutOfExtentGetAbsent ==
    \A w \in Positions :
        ~InExtent(level_size, w) => ~get_voxel(loaded_chunks, level_size, w).some

\* C2: a set_voxel at an out-of-extent coordinate changes get_voxel at no
\* in-extent coordinate.
C2_OutOfExtentSetDropped ==
    [][(ret'.op = "set_voxel" /\ nsets' = nsets + 1 /\ ~InExtent(level_size, ret'.pos))
        => \A u \in Positions :
              InExtent(level_size, u)
                => get_voxel(loaded_chunks', level_size', u) = get_voxel(loaded_chunks, level_size, u)]_vars

\* C3: the live chunk array has exactly one slot per chunk coordinate.
C3_DenseLength == loaded_chunks.some /\ Len(loaded_chunks.val) = ChunkCount

\* C4: right after set_voxel(w, v) at an in-extent w, get_voxel(w) returns v.
C4_SetThenGet ==
    (ret.op = "set_voxel" /\ InExtent(level_size, ret.pos))
        => get_voxel(loaded_chunks, level_size, ret.pos) = Some(ret.voxel)

\* A second set_voxel, of a non-default voxel, into a cell off the chunk's
\* origin of a chunk other than the first.
C4_Witness ==
    /\ ret.op = "set_voxel"
    /\ nsets > 1
    /\ InExtent(level_size, ret.pos)
    /\ ret.voxel # DefaultVoxel
    /\ to_chunk(ret.pos) # <<0, 0, 0>>
    /\ to_relative(ret.pos) # <<0, 0, 0>>
    /\ get_voxel(loaded_chunks, level_size, ret.pos) = Some(ret.voxel)

\* The neighbour slots of chunk coordinate c that are present.
NeighborsAsClaimed(c) ==
    LET res == get_chunk_neighbors_pos(loaded_chunks, level_size, c)
    IN  /\ res.some
        /\ \A i \in 1..26 :
              LET cand == <<c[1] + NeighborOffsets[i][1], c[2] + NeighborOffsets[i][2],
                            c[3] + NeighborOffsets[i][3]>>
              IN  IF ChunkInExtent(level_size, cand)
                  THEN res.val[i] = Some(cand)
                  ELSE ~res.val[i].some

\* C5: at chunk (0,0,0) and at the opposite corner, a neighbour is present
\* exactly when its coordinate is within the level on every axis.
C5_CornerNeighbors ==
    /\ NeighborsAsClaimed(<<0, 0, 0>>)
    /\ NeighborsAsClaimed(<<level_size[1] - 1, level_size[2] - 1, level_size[3] - 1>>)

\* C9: between calls, the raw mirror stored_chunks is absent.
C9_MirrorAbsent == ~stored_chunks.some

\* a <= b on f32, no NaN
FLeq(a, b) == ~FLess(b, a)

\* The transition is an advancing iteration of the loop.
RayStepped == ray.pc = "loop" /\ ray'.pc = "loop" /\ ray'.counter = ray.counter + 1

\* The advancing iteration moved along axis a, and along no other.
RayMovedAlong(a) ==
    /\ ray'.current_block[a] # ray.current_block[a]
    /\ \A b \in 1..3 : b # a => ray'.current_block[b] = ray.current_block[b]

\* C6, as claimed: the advanced axis has the smallest tmax, and on a tie x beats
\* y beats z.
C6_XBeatsYBeatsZ ==
    [][RayStepped =>
        \E a \in 1..3 :
            /\ RayMovedAlong(a)
            /\ \A b \in 1..3 : FLeq(ray.tmax[a], ray.tmax[b])
            /\ \A b \in 1..3 : b < a => FLess(ray.tmax[a], ray.tmax[b])]_vars

\* C6, as amended: the advanced axis has the smallest tmax, and on a tie z beats
\* y beats x.
C6_ZBeatsYBeatsX ==
    [][RayStepped =>
        \E a \in 1..3 :
            /\ RayMovedAlong(a)
            /\ \A b \in 1..3 : FLeq(ray.tmax[a], ray.tmax[b])
            /\ \A b \in 1..3 : b > a => FLess(ray.tmax[a], ray.tmax[b])]_vars

\* The last iteration advanced along y while tmax.x was tied with tmax.y (the
\* tmax of the advanced axis is now lastmax) and below tmax.z.
C6_Witness ==
    /\ ray.pc = "loop"
    /\ ray.counter > 0
    /\ ray.face[2] # 0
    /\ ray.tmax[1] = ray.lastmax
    /\ FLess(ray.lastmax, ray.tmax[3])

\* t = radius / direction.length()
EqualsRadius(t, radius, d) ==
    t # Inf /\ t * t * LengthSquared(d) = (radius * DScale) * (radius * DScale)

\* C7: a voxel entered beyond the radius is no hit, and an occupied voxel entered
\* at a tmax equal to the radius is returned as the hit.
C7_RadiusCutoff ==
    (ray.pc = "done" /\ ray.counter > 0) =>
        /\ ray.out.some => ~GreaterThanRadius(ray.lastmax, ray.radius, ray.direction)
        /\ (/\ EqualsRadius(ray.lastmax, ray.radius, ray.direction)
            /\ block_callback(loaded_chunks, level_size, ray.current_block))
           => ray.out.some

\* The cells of the live chunk array that hold a non-empty voxel.
OccupiedCells ==
    {<<i, r>> \in UNION {{<<j, q>> : q \in DOMAIN loaded_chunks.val[j]} : j \in 1..Len(loaded_chunks.val)} :
        ~is_empty(loaded_chunks.val[i][r])}

\* World voxel w is in the level and is its only occupied voxel.
OnlyOccupied(w) ==
    /\ InExtent(level_size, w)
    /\ block_callback(loaded_chunks, level_size, w)
    /\ Cardinality(OccupiedCells) = 1

\* The finished ray went from (0.5, 0.5, 0.5) along (1, 0, 0).
RayAlongX ==
    /\ ray.pc = "done"
    /\ ray.origin = <<OScale \div 2, OScale \div 2, OScale \div 2>>
    /\ ray.direction = <<1, 0, 0>>

\* C8: from (0.5, 0.5, 0.5) along (1, 0, 0), with (n, 0, 0) the only occupied
\* voxel and radius >= n - 0.5, the ray hits (n, 0, 0) on the face (-1, 0, 0) at
\* distance n - 0.5.
C8_AxisRayHit ==
    \A n \in 1..MaxRayX :
        (RayAlongX /\ OnlyOccupied(<<n, 0, 0>>) /\ 2 * ray.radius >= (2 * n - 1) * OScale)
            => /\ ray.out.some
               /\ \A a \in 1..3 : ray.out.val.relative_pos[a] \in 0..(CHUNK_SIZE - 1)
               /\ [a \in 1..3 |-> ray.out.val.chunk_pos[a] * CHUNK_SIZE + ray.out.val.relative_pos[a]]
                      = <<n, 0, 0>>
               /\ ray.out.val.face = <<-1, 0, 0>>
               /\ ray.out.val.length_squared = 1
               /\ 2 * ray.out.val.toi = (2 * n - 1) * TScale

\* The ray hit the only occupied voxel (MaxRayX, 0, 0), in the second chunk.
C8_Witness ==
    /\ RayAlongX
    /\ OnlyOccupied(<<MaxRayX, 0, 0>>)
    /\ ray.out.some
    /\ ray.out.val.chunk_pos = <<1, 0, 0>>
    /\ ray.out.val.face = <<-1, 0, 0>>

\* C10: for a non-zero direction of any magnitude, the traversal does not end
\* without a hit in an occupied voxel it has entered (every voxel it enters, it
\* enters within the radius), and a ray that hits with direction u hits with
\* direction 2^MaxDirExp * u.
C10_CapNeverCutsShort ==
    (ray.pc = "done" /\ ray.direction # <<0, 0, 0>> /\ ~ray.out.some)
        => /\ ~block_callback(loaded_chunks, level_size, ray.current_block)
           /\ \A u \in Directions \ {<<0, 0, 0>>} :
                 ray.direction = [a \in 1..3 |-> DScale * u[a]]
                   => ~RaycastRun(RayEnter(ray.origin, u, ray.radius), loaded_chunks, level_size).out.some

====
